---- MODULE Spec2Model ----
(***************************************************************************)
(* Smart Canteen Analytics: the report pipeline of pipeline.py             *)
(*   load_data -> pandas_phase -> numpy_phase -> build_excel_and_charts    *)
(* sequenced by run_pipeline.                                              *)
(*                                                                         *)
(* Conventions of the model                                                *)
(*  - a string is the sequence of its ASCII codes, so that strip, lower,   *)
(*    title, replace and Python's string ordering are computed;            *)
(*  - a CSV cell (and every nullable value of a DataFrame) is a record     *)
(*    [k, v]: k is "num", "inf", "str", "ts", "date" or "nan", v a         *)
(*    sequence;                                                            *)
(*  - money and the numeric cells of a CSV are fixed-point numbers in      *)
(*    hundredths (price 10.00 is 1000); quantities and student counts are  *)
(*    whole numbers once load_data has cast them to int; a quantity or     *)
(*    student_count cell may also read inf, the other numbers are finite;  *)
(*  - item_id cells are integers, the menu's unitcost column (when the     *)
(*    file has one) holds numbers or empty cells, and the cells of the     *)
(*    date column are text; headers are distinct once normalised.          *)
(***************************************************************************)
EXTENDS Integers, Sequences, FiniteSets, TLC

VARIABLES pc, menu_csv, sales_csv, menu, sales, df, daily, vnv, top5, result, error

vars == <<pc, menu_csv, sales_csv, menu, sales, df, daily, vnv, top5, result, error>>

\* Two decimals: the resolution of round(..., 2) and of the money cells.
Scale == 100
\* unitcost defaults to price * 0.60.
CostPct == 60
\* Rank <= 5 is kept.
TopN == 5
\* The window of the moving average: np.ones(3) / 3.0.
Window == 3
\* Charts draw bars up to 2 dates, lines above.
BarMaxDates == 2
\* The item breakdown of a date sheet starts at row 5.
BreakdownStartRow == 5

(***************************************************************************)
(* Cells                                                                   *)
(***************************************************************************)
NaN == [k |-> "nan", v |-> <<>>]
Num(x) == [k |-> "num", v |-> <<x>>]
\* A cell that reads inf (sign 1) or -inf (sign -1): a float without a whole
\* number to cast it to.
Inf(sign) == [k |-> "inf", v |-> <<sign>>]
Str(s) == [k |-> "str", v |-> s]
\* A text cell that reads as a timestamp: day number and hour of the day.
Ts(d, h) == [k |-> "ts", v |-> <<d, h>>]
\* A calendar date (datetime.date).
Date(d) == [k |-> "date", v |-> <<d>>]
IsNa(c) == c.k = "nan"
Val(c) == c.v[1]

(***************************************************************************)
(* Python strings                                                          *)
(***************************************************************************)
IsUpper(ch) == ch >= 65 /\ ch <= 90
IsLower(ch) == ch >= 97 /\ ch <= 122
IsCased(ch) == IsUpper(ch) \/ IsLower(ch)
IsSpace(ch) == ch \in {9, 10, 11, 12, 13, 32}
ToLower(ch) == IF IsUpper(ch) THEN ch + 32 ELSE ch
ToUpper(ch) == IF IsLower(ch) THEN ch - 32 ELSE ch

RECURSIVE LStrip(_)
LStrip(s) == IF s # <<>> /\ IsSpace(Head(s)) THEN LStrip(Tail(s)) ELSE s

RECURSIVE RStrip(_)
RStrip(s) ==
  IF s # <<>> /\ IsSpace(s[Len(s)]) THEN RStrip(SubSeq(s, 1, Len(s) - 1)) ELSE s

\* str.strip()
Strip(s) == RStrip(LStrip(s))

\* str.lower()
Lower(s) == [i \in DOMAIN s |-> ToLower(s[i])]

\* str.replace("_", "-")
ReplaceUnderscore(s) == [i \in DOMAIN s |-> IF s[i] = 95 THEN 45 ELSE s[i]]

\* str.title(): a cased character is upper-cased when the one before it is
\* not cased, lower-cased otherwise.
Title(s) ==
  [i \in DOMAIN s |->
     IF i > 1 /\ IsCased(s[i - 1]) THEN ToLower(s[i]) ELSE ToUpper(s[i])]

\* Python's < on str: by code point, a proper prefix first.
RECURSIVE LexLess(_, _)
LexLess(s, t) ==
  IF t = <<>> THEN FALSE
  ELSE IF s = <<>> THEN TRUE
  ELSE IF Head(s) # Head(t) THEN Head(s) < Head(t)
  ELSE LexLess(Tail(s), Tail(t))

\* sorted(S) of a set of strings.
RECURSIVE SortedStrs(_)
SortedStrs(S) ==
  IF S = {} THEN <<>>
  ELSE LET m == CHOOSE x \in S : \A y \in S : y = x \/ LexLess(x, y)
       IN <<m>> \o SortedStrs(S \ {m})

\* sorted(S) of a set of integers.
RECURSIVE SortedInts(_)
SortedInts(S) ==
  IF S = {} THEN <<>>
  ELSE LET m == CHOOSE x \in S : \A y \in S : x <= y
       IN <<m>> \o SortedInts(S \ {m})

\* Column names and category literals of the source.
S_item_id == <<105, 116, 101, 109, 95, 105, 100>>                    \* "item_id"
S_item_name == <<105, 116, 101, 109, 95, 110, 97, 109, 101>>         \* "item_name"
S_category == <<99, 97, 116, 101, 103, 111, 114, 121>>               \* "category"
S_price == <<112, 114, 105, 99, 101>>                                \* "price"
S_unitcost == <<117, 110, 105, 116, 99, 111, 115, 116>>              \* "unitcost"
S_quantity == <<113, 117, 97, 110, 116, 105, 116, 121>>              \* "quantity"
S_student_count ==
  <<115, 116, 117, 100, 101, 110, 116, 95, 99, 111, 117, 110, 116>>  \* "student_count"
S_date == <<100, 97, 116, 101>>                                      \* "date"
S_nan == <<110, 97, 110>>                                            \* "nan"
S_Non_Veg == <<78, 111, 110, 45, 86, 101, 103>>                      \* "Non-Veg"
S_Non_veg == <<78, 111, 110, 45, 118, 101, 103>>                     \* "Non-veg"

(***************************************************************************)
(* Numbers                                                                 *)
(***************************************************************************)
Abs(x) == IF x < 0 THEN -x ELSE x

\* A cast that rounds down instead of towards zero.
FloorDiv(n, d) == n \div d
\* int(x) of a float: towards zero.
TruncDiv(n, d) == IF n >= 0 THEN n \div d ELSE -((-n) \div d)

\* n / d (d > 0) rounded to the nearest integer, halves to even: np.round.
RoundHalfEven(n, d) ==
  LET q == n \div d
      r == n % d
  IN IF 2 * r < d THEN q
     ELSE IF 2 * r > d THEN q + 1
     ELSE IF q % 2 = 0 THEN q ELSE q + 1

\* Arithmetic of float columns: NaN propagates.
Mul(q, c) == IF IsNa(c) THEN NaN ELSE Num(q * Val(c))
Sub(a, b) == IF IsNa(a) \/ IsNa(b) THEN NaN ELSE Num(Val(a) - Val(b))

\* Series.sum() (skipna): NaN counts as 0. The argument is a sequence of cells.
RECURSIVE SumSkipNa(_)
SumSkipNa(cs) ==
  IF cs = <<>> THEN 0
  ELSE (IF IsNa(Head(cs)) THEN 0 ELSE Val(Head(cs))) + SumSkipNa(Tail(cs))

RECURSIVE SumInts(_)
SumInts(xs) == IF xs = <<>> THEN 0 ELSE Head(xs) + SumInts(Tail(xs))

(***************************************************************************)
(* Phase 0: load_data                                                      *)
(***************************************************************************)
\* A raw table is [columns |-> <<header, ...>>, rows |-> <<row, ...>>],
\* a row being the sequence of its cells in column order.
NormColumns(cols) == [i \in DOMAIN cols |-> Lower(Strip(cols[i]))]
ColSet(cols) == {cols[i] : i \in DOMAIN cols}
ColIdx(cols, name) == CHOOSE i \in DOMAIN cols : cols[i] = name
Cell(cols, row, name) == row[ColIdx(cols, name)]

need_menu == {S_item_id, S_item_name, S_category, S_price}
need_sales == {S_item_id, S_quantity, S_student_count, S_date}

\* pd.to_numeric(errors="coerce"): what is no number is NaN.
ToNumeric(c) == IF c.k \in {"num", "inf"} THEN c ELSE NaN
\* .fillna(x)
FillNa(c, x) == IF IsNa(c) THEN Num(x) ELSE c
\* .astype(int) of a float column: every value has to be finite.
CanCastInt(cs) == \A i \in DOMAIN cs : cs[i].k # "inf"
AsInt(c) == TruncDiv(Val(c), Scale)
\* pd.to_datetime(errors="coerce"): what is no timestamp is NaT.
ToDatetime(c) ==
  IF c.k = "ts" THEN c
  ELSE IF c.k = "date" THEN Ts(Val(c), 0)
  ELSE NaN
\* .dt.date: the time of day is dropped.
DtDate(c) == IF IsNa(c) THEN NaN ELSE Date(c.v[1])

\* 60% of the price cut to two decimals instead of rounded.
TruncatedUnitCost(price) == Num((price * CostPct) \div 100)
\* unitcost when the menu has no such column: (price * 0.60).round(2)
DefaultUnitCost(price) == Num(RoundHalfEven(price * CostPct, 100))

\* Lines 32-34: the menu's price and unitcost.
LoadMenuRow(cols, row) ==
  LET price == Val(FillNa(ToNumeric(Cell(cols, row, S_price)), 0))
  IN [item_id |-> Val(Cell(cols, row, S_item_id)),
      item_name |-> Cell(cols, row, S_item_name),
      category |-> Cell(cols, row, S_category),
      price |-> price,
      unitcost |-> IF S_unitcost \notin ColSet(cols)
                   THEN DefaultUnitCost(price)
                   ELSE Cell(cols, row, S_unitcost)]

\* Lines 36-37: quantity and student_count.
CoerceCount(c) == AsInt(FillNa(ToNumeric(c), 0))

\* Lines 36-38: the sales' quantity, student_count and date.
LoadSalesRow(cols, row) ==
  [item_id |-> Val(Cell(cols, row, S_item_id)),
   quantity |-> CoerceCount(Cell(cols, row, S_quantity)),
   student_count |-> CoerceCount(Cell(cols, row, S_student_count)),
   date |-> DtDate(ToDatetime(Cell(cols, row, S_date)))]

NoError == [type |-> "none", table |-> "", cols |-> <<>>]
\* sorted(S) left out: the names in descending order.
RECURSIVE ReversedStrs(_)
ReversedStrs(S) ==
  IF S = {} THEN <<>>
  ELSE LET m == CHOOSE x \in S : \A y \in S : y = x \/ LexLess(y, x)
       IN <<m>> \o ReversedStrs(S \ {m})
SchemaErrorUnsorted(table, missing) ==
  [type |-> "KeyError", table |-> table, cols |-> ReversedStrs(missing)]
\* KeyError(f"{table} missing columns: {sorted(missing)}")
SchemaError(table, missing) ==
  [type |-> "KeyError", table |-> table, cols |-> SortedStrs(missing)]

\* The ValueError (IntCastingNaNError) of .astype(int) on a column with a
\* value that is not finite.
CastError(column) == [type |-> "ValueError", table |-> "Sales", cols |-> <<column>>]
\* The column as line 36 or 37 hands it to .astype(int).
FilledColumn(cols, rows, name) ==
  [i \in DOMAIN rows |-> FillNa(ToNumeric(Cell(cols, rows[i], name)), 0)]

\* load_data: the tables, or the exception it raises.
load_data(m, s) ==
  LET mcols == NormColumns(m.columns)
      scols == NormColumns(s.columns)
      miss_m == need_menu \ ColSet(mcols)
      miss_s == need_sales \ ColSet(scols)
  IN IF miss_m # {}
     THEN [error |-> SchemaError("Menu", miss_m), menu |-> <<>>, sales |-> <<>>]
     ELSE IF miss_s # {}
     THEN [error |-> SchemaError("Sales", miss_s), menu |-> <<>>, sales |-> <<>>]
     ELSE IF ~CanCastInt(FilledColumn(scols, s.rows, S_quantity))
     THEN [error |-> CastError(S_quantity), menu |-> <<>>, sales |-> <<>>]
     ELSE IF ~CanCastInt(FilledColumn(scols, s.rows, S_student_count))
     THEN [error |-> CastError(S_student_count), menu |-> <<>>, sales |-> <<>>]
     ELSE [error |-> NoError,
           menu |-> [i \in DOMAIN m.rows |-> LoadMenuRow(mcols, m.rows[i])],
           sales |-> [i \in DOMAIN s.rows |-> LoadSalesRow(scols, s.rows[i])]]

(***************************************************************************)
(* Phase 1: pandas_phase                                                   *)
(***************************************************************************)
Col(rows, f) == [i \in DOMAIN rows |-> rows[i][f]]

\* A merge without validate=.
NotValidated(m) == TRUE
\* validate="many_to_one": the merge keys of the right table are unique.
IsManyToOne(m) ==
  \A i, j \in DOMAIN m : i # j => m[i].item_id # m[j].item_id

MergeError == [type |-> "MergeError", table |-> "Menu", cols |-> <<>>]

JoinRow(s, item, category, price, unitcost) ==
  [item_id |-> s.item_id, quantity |-> s.quantity,
   student_count |-> s.student_count, date |-> s.date,
   Item |-> item, Category |-> category, price |-> price, unitcost |-> unitcost]

\* The rows a left join gives one sales row: one per matching menu row in
\* menu order, or one with null menu columns when there is none.
RECURSIVE Matches(_, _)
Matches(s, m) ==
  IF m = <<>> THEN <<>>
  ELSE (IF Head(m).item_id = s.item_id
        THEN <<JoinRow(s, Head(m).item_name, Head(m).category,
                       Num(Head(m).price), Head(m).unitcost)>>
        ELSE <<>>) \o Matches(s, Tail(m))

LeftJoinRow(s, m) ==
  IF Matches(s, m) = <<>> THEN <<JoinRow(s, NaN, NaN, NaN, NaN)>> ELSE Matches(s, m)

\* sales.merge(menu[...], on="item_id", how="left"): left order is kept.
RECURSIVE Merge(_, _)
Merge(s, m) ==
  IF s = <<>> THEN <<>> ELSE LeftJoinRow(Head(s), m) \o Merge(Tail(s), m)

\* .astype(str): str(nan) is "nan".
AsTypeStr(c) == IF IsNa(c) THEN Str(S_nan) ELSE c

\* Series.replace({"Non-Veg": "Non-veg"}): whole values.
ReplaceNonVeg(s) == IF s = S_Non_Veg THEN S_Non_veg ELSE s

\* Lines 54-61.
NormCategory(c) ==
  Str(ReplaceNonVeg(Title(ReplaceUnderscore(Strip(AsTypeStr(c).v)))))

\* Lines 53-66: date, Category and the financials of one joined row.
Financials(r) ==
  LET rev == Mul(r.quantity, r.price)
      cost == Mul(r.quantity, r.unitcost)
  IN [item_id |-> r.item_id, quantity |-> r.quantity,
      student_count |-> r.student_count,
      date |-> DtDate(ToDatetime(r.date)),
      Item |-> r.Item, Category |-> NormCategory(r.Category),
      price |-> r.price, unitcost |-> r.unitcost,
      Revenue |-> rev, Cost |-> cost, Profit |-> Sub(rev, cost)]

Joined(m, s) == LET j == Merge(s, m) IN [i \in DOMAIN j |-> Financials(j[i])]

\* groupby keys: rows whose key is null are dropped, groups come sorted.
HasDate(r) == ~IsNa(r.date)
DateKeys(d) == SortedInts({Val(d[i].date) : i \in {j \in DOMAIN d : HasDate(d[j])}})
\* A grouping that takes the rows up to a day instead of the rows of the day.
RowsUpTo(d, day) == SelectSeq(d, LAMBDA r : HasDate(r) /\ Val(r.date) <= day)
RowsOn(d, day) == SelectSeq(d, LAMBDA r : HasDate(r) /\ Val(r.date) = day)

\* Lines 69-80.
DailyRow(g, day) ==
  [Date |-> day,
   Revenue |-> SumSkipNa(Col(g, "Revenue")),
   Cost |-> SumSkipNa(Col(g, "Cost")),
   Profit |-> SumSkipNa(Col(g, "Profit")),
   Orders |-> SumInts(Col(g, "quantity")),
   UniqueStudents |-> SumInts(Col(g, "student_count"))]

DailyAgg(d) ==
  LET keys == DateKeys(d)
  IN [i \in DOMAIN keys |-> DailyRow(RowsOn(d, keys[i]), keys[i])]

\* A stable sort by integer-tuple keys, ascending: sort_values on several
\* columns. The elements are [key, row].
RECURSIVE InsertByKey(_, _)
InsertByKey(s, e) ==
  IF s = <<>> THEN <<e>>
  ELSE IF LexLess(e.key, Head(s).key) THEN <<e>> \o s
  ELSE <<Head(s)>> \o InsertByKey(Tail(s), e)

RECURSIVE SortByKey(_)
SortByKey(s) ==
  IF s = <<>> THEN <<>>
  ELSE InsertByKey(SortByKey(SubSeq(s, 1, Len(s) - 1)), s[Len(s)])

RECURSIVE Concat(_)
Concat(ss) == IF ss = <<>> THEN <<>> ELSE Head(ss) \o Concat(Tail(ss))

\* Lines 83-87: groupby(["date", "Category"]).
VnvOn(d, day) ==
  LET g == RowsOn(d, day)
      cats == SortedStrs({g[i].Category.v : i \in DOMAIN g})
  IN [i \in DOMAIN cats |->
        LET gc == SelectSeq(g, LAMBDA r : r.Category.v = cats[i])
        IN [Date |-> day, Category |-> Str(cats[i]),
            Revenue |-> SumSkipNa(Col(gc, "Revenue")),
            Qty |-> SumInts(Col(gc, "quantity"))]]

VnvGrouped(d) ==
  LET keys == DateKeys(d) IN Concat([i \in DOMAIN keys |-> VnvOn(d, keys[i])])

\* Line 88: sort_values(["Date", "Revenue"], ascending=[True, False]).
VnvAgg(d) ==
  LET g == VnvGrouped(d)
      s == SortByKey([i \in DOMAIN g |->
                        [key |-> <<g[i].Date, -g[i].Revenue>>, row |-> g[i]]])
  IN [i \in DOMAIN s |-> s[i].row]

\* Lines 92-97: groupby(["date", "Item"]).
HasItem(r) == ~IsNa(r.Item)

\* The distinct values of a sequence in the order they first appear.
RECURSIVE FirstSeen(_)
FirstSeen(s) ==
  IF s = <<>> THEN <<>>
  ELSE LET f == FirstSeen(SubSeq(s, 1, Len(s) - 1))
       IN IF \E i \in DOMAIN f : f[i] = s[Len(s)] THEN f ELSE f \o <<s[Len(s)]>>

\* groupby(..., sort=False): the groups in the order of their first row.
TopItemsOnUnsorted(d, day) ==
  LET g == SelectSeq(RowsOn(d, day), HasItem)
      items == FirstSeen([i \in DOMAIN g |-> g[i].Item.v])
  IN [i \in DOMAIN items |->
        LET gi == SelectSeq(g, LAMBDA r : r.Item.v = items[i])
        IN [Date |-> day, Item |-> Str(items[i]),
            Revenue |-> SumSkipNa(Col(gi, "Revenue")),
            Qty |-> SumInts(Col(gi, "quantity"))]]
TopItemsOn(d, day) ==
  LET g == SelectSeq(RowsOn(d, day), HasItem)
      items == SortedStrs({g[i].Item.v : i \in DOMAIN g})
  IN [i \in DOMAIN items |->
        LET gi == SelectSeq(g, LAMBDA r : r.Item.v = items[i])
        IN [Date |-> day, Item |-> Str(items[i]),
            Revenue |-> SumSkipNa(Col(gi, "Revenue")),
            Qty |-> SumInts(Col(gi, "quantity"))]]

TopItems(d) ==
  LET keys == DateKeys(d) IN Concat([i \in DOMAIN keys |-> TopItemsOn(d, keys[i])])

\* rank(method="min"): rows of equal revenue share a rank.
RankMin(t, i) ==
  1 + Cardinality({j \in DOMAIN t :
                     t[j].Date = t[i].Date /\ t[j].Revenue > t[i].Revenue})

\* Line 98: rank(method="first", ascending=False) within the rows of a date:
\* larger revenue first, equal revenue in the order of the rows of t.
RankFirst(t, i) ==
  1 + Cardinality({j \in DOMAIN t :
                     /\ t[j].Date = t[i].Date
                     /\ \/ t[j].Revenue > t[i].Revenue
                        \/ t[j].Revenue = t[i].Revenue /\ j < i})

Ranked(t) ==
  [i \in DOMAIN t |->
     [Date |-> t[i].Date, Item |-> t[i].Item, Revenue |-> t[i].Revenue,
      Qty |-> t[i].Qty, Rank |-> RankFirst(t, i)]]

\* Line 99: top_items[Rank <= 5].sort_values(["Date", "Rank"]).
Top5(t) ==
  LET kept == SelectSeq(Ranked(t), LAMBDA r : r.Rank <= TopN)
      s == SortByKey([i \in DOMAIN kept |->
                        [key |-> <<kept[i].Date, kept[i].Rank>>, row |-> kept[i]]])
  IN [i \in DOMAIN s |-> s[i].row]

\* pandas_phase: the four tables, or the exception of the merge.
pandas_phase(m, s) ==
  IF ~IsManyToOne(m)
  THEN [error |-> MergeError, df |-> <<>>, daily |-> <<>>, vnv |-> <<>>, top5 |-> <<>>]
  ELSE LET d == Joined(m, s)
       IN [error |-> NoError, df |-> d, daily |-> DailyAgg(d),
           vnv |-> VnvAgg(d), top5 |-> Top5(TopItems(d))]

(***************************************************************************)
(* Phase 2: numpy_phase                                                    *)
(***************************************************************************)
\* A replacement that also takes the negative counts for missing.
NonPositiveToNaN(x) == IF x <= 0 THEN NaN ELSE Num(x)
\* Series.replace(0, np.nan)
ZeroToNaN(x) == IF x = 0 THEN NaN ELSE Num(x)

\* n / d rounded to two decimals, d of either sign.
RoundDiv(n, d) == IF d > 0 THEN RoundHalfEven(n, d) ELSE RoundHalfEven(-n, -d)

\* Lines 106-108: np.round(rev / students, 2); a NaN divisor gives NaN.
AvgSpend(rev, students) ==
  IF IsNa(students) THEN NaN ELSE Num(RoundDiv(rev, Val(students)))

\* np.pad's default mode: zeros at both ends.
PadZero(c) == <<0>> \o c \o <<0>>
\* np.pad(cost, (1, 1), mode="edge")
PadEdge(c) == <<c[1]>> \o c \o <<c[Len(c)]>>

\* np.round(np.convolve(pad, np.ones(3) / 3.0, mode="valid"), 2)
ConvolveValid(p) ==
  [i \in 1..(Len(p) - Window + 1) |->
     RoundHalfEven(SumInts(SubSeq(p, i, i + Window - 1)), Window)]

\* Lines 110-116.
CostMA3(cost) ==
  IF Len(cost) > 0
  THEN LET ma == ConvolveValid(PadEdge(cost)) IN [i \in DOMAIN cost |-> Num(ma[i])]
  ELSE [i \in DOMAIN cost |-> NaN]

numpy_phase(d) ==
  LET ma == CostMA3(Col(d, "Cost"))
  IN [i \in DOMAIN d |->
        [Date |-> d[i].Date, Revenue |-> d[i].Revenue, Cost |-> d[i].Cost,
         Profit |-> d[i].Profit, Orders |-> d[i].Orders,
         UniqueStudents |-> d[i].UniqueStudents,
         AvgSpendPerStudent |-> AvgSpend(d[i].Revenue, ZeroToNaN(d[i].UniqueStudents)),
         Cost_MA3 |-> ma[i]]]

(***************************************************************************)
(* Phase 3: build_excel_and_charts                                         *)
(***************************************************************************)
\* A sheet: its name (a fixed name, or str(d) of a date), and the blocks
\* written to it as [startrow, nrows].
Sheet(name, date, blocks) == [name |-> name, date |-> date, blocks |-> blocks]
Block(startrow, nrows) == [startrow |-> startrow, nrows |-> nrows]

\* Lines 137-142: groupby(["Item", "Category"]) of the rows of one date.
ItemBreakdownRows(g) ==
  Cardinality({<<g[i].Item.v, g[i].Category.v>> : i \in {j \in DOMAIN g : HasItem(g[j])}})

\* Lines 133-143: one sheet per date of the joined rows.
DateSheet(d, dl, day) ==
  Sheet("date", Date(day),
        <<Block(0, Len(SelectSeq(dl, LAMBDA r : r.Date = day))),
          Block(BreakdownStartRow, ItemBreakdownRows(RowsOn(d, day)))>>)

\* Lines 127-143.
Workbook(d, dl, v, t) ==
  LET keys == DateKeys(d)
  IN <<Sheet("Full_Joined", NaN, <<Block(0, Len(d))>>),
       Sheet("Summary_Daily", NaN, <<Block(0, Len(dl))>>),
       Sheet("Veg_NonVeg_Ratio", NaN, <<Block(0, Len(v))>>),
       Sheet("Top5_Items_Per_Day", NaN, <<Block(0, Len(t))>>)>>
     \o [i \in DOMAIN keys |-> DateSheet(d, dl, keys[i])]

\* Lines 149-180: no chart of an empty table, bars up to two dates.
Chart(nrows, ndates) ==
  IF nrows > 0 THEN (IF ndates <= BarMaxDates THEN "bar" ELSE "line") ELSE "none"

build_excel_and_charts(d, dl, v, t) ==
  [excel_bytes |-> Workbook(d, dl, v, t),
   daily_png |-> Chart(Len(dl), Len(dl)),
   vnv_png |-> Chart(Len(v), Cardinality({v[i].Date : i \in DOMAIN v}))]

(***************************************************************************)
(* run_pipeline, one action per phase                                      *)
(***************************************************************************)
NoResult ==
  [returned |-> FALSE, df |-> <<>>, daily |-> <<>>, vnv |-> <<>>, top5 |-> <<>>,
   excel_bytes |-> <<>>, daily_png |-> "none", vnv_png |-> "none"]

\* Line 187.
LoadData ==
  /\ pc = "start"
  /\ LET r == load_data(menu_csv, sales_csv)
     IN /\ pc' = IF r.error = NoError THEN "loaded" ELSE "raised"
        /\ error' = r.error
        /\ menu' = r.menu
        /\ sales' = r.sales
  /\ UNCHANGED <<menu_csv, sales_csv, df, daily, vnv, top5, result>>

\* Line 188.
PandasPhase ==
  /\ pc = "loaded"
  /\ LET r == pandas_phase(menu, sales)
     IN /\ pc' = IF r.error = NoError THEN "joined" ELSE "raised"
        /\ error' = r.error
        /\ df' = r.df
        /\ daily' = r.daily
        /\ vnv' = r.vnv
        /\ top5' = r.top5
  /\ UNCHANGED <<menu_csv, sales_csv, menu, sales, result>>

\* Line 189.
NumpyPhase ==
  /\ pc = "joined"
  /\ daily' = numpy_phase(daily)
  /\ pc' = "derived"
  /\ UNCHANGED <<menu_csv, sales_csv, menu, sales, df, vnv, top5, result, error>>

\* Lines 190-199.
BuildAndReturn ==
  /\ pc = "derived"
  /\ LET a == build_excel_and_charts(df, daily, vnv, top5)
     IN result' = [returned |-> TRUE, df |-> df, daily |-> daily, vnv |-> vnv,
                   top5 |-> top5, excel_bytes |-> a.excel_bytes,
                   daily_png |-> a.daily_png, vnv_png |-> a.vnv_png]
  /\ pc' = "returned"
  /\ UNCHANGED <<menu_csv, sales_csv, menu, sales, df, daily, vnv, top5, error>>

Next == LoadData \/ PandasPhase \/ NumpyPhase \/ BuildAndReturn

(***************************************************************************)
(* Inputs                                                                  *)
(***************************************************************************)
\* A CSV file from a header (a sequence of [h |-> text, f |-> field]) and
\* its rows given field by field.
MkTable(head, rows) ==
  [columns |-> [j \in DOMAIN head |-> head[j].h],
   rows |-> [i \in DOMAIN rows |-> [j \in DOMAIN head |-> rows[i][head[j].f]]]]

SeqsUpTo(S, n) == UNION {[1..k -> S] : k \in 0..n}

InitFrom(menus, saless) ==
  /\ pc = "start"
  /\ menu_csv \in menus
  /\ sales_csv \in saless
  /\ menu = <<>>
  /\ sales = <<>>
  /\ df = <<>>
  /\ daily = <<>>
  /\ vnv = <<>>
  /\ top5 = <<>>
  /\ result = NoResult
  /\ error = NoError

\* Texts of the input files.
T_Tea == <<84, 101, 97>>                                   \* "Tea"
T_Dosa == <<68, 111, 115, 97>>                             \* "Dosa"
T_Bun == <<66, 117, 110>>                                  \* "Bun"
T_veg == <<118, 101, 103>>                                 \* "veg"
T_Veg == <<86, 101, 103>>                                  \* "Veg"
T_Non_Veg == <<78, 111, 110, 95, 86, 101, 103>>            \* "Non_Veg"
T_NON_VEG == <<32, 78, 79, 78, 45, 86, 69, 71, 32>>        \* " NON-VEG "
T_abc == <<97, 98, 99>>                                    \* "abc"
T_Nan == <<78, 97, 110>>                                   \* "Nan"
H_Item_ID == <<32, 73, 116, 101, 109, 95, 73, 68>>         \* " Item_ID"
H_Category == <<67, 97, 116, 101, 103, 111, 114, 121, 32>> \* "Category "
H_PRICE == <<80, 82, 73, 67, 69>>                          \* "PRICE"
H_UnitCost == <<85, 110, 105, 116, 67, 111, 115, 116>>     \* "UnitCost"
H_unit_cost == <<117, 110, 105, 116, 95, 99, 111, 115, 116>> \* "unit_cost"
H_Quantity == <<81, 117, 97, 110, 116, 105, 116, 121>>     \* "Quantity"
H_Date == <<32, 68, 97, 116, 101>>                         \* " Date"

MenuHead ==
  <<[h |-> H_Item_ID, f |-> "item_id"], [h |-> S_item_name, f |-> "item_name"],
    [h |-> H_Category, f |-> "category"], [h |-> H_PRICE, f |-> "price"]>>
\* The menu with a cost column named unitcost, and with one named unit_cost.
MenuHeadUnitcost == MenuHead \o <<[h |-> H_UnitCost, f |-> "cost"]>>
MenuHeadUnit_cost == MenuHead \o <<[h |-> H_unit_cost, f |-> "cost"]>>
SalesHead ==
  <<[h |-> S_item_id, f |-> "item_id"], [h |-> H_Quantity, f |-> "quantity"],
    [h |-> S_student_count, f |-> "student_count"], [h |-> H_Date, f |-> "date"]>>

MenuRow(id, name, category, price, cost) ==
  [item_id |-> Num(id), item_name |-> name, category |-> category,
   price |-> price, cost |-> cost]
SalesRow(id, quantity, students, date) ==
  [item_id |-> Num(id), quantity |-> quantity, student_count |-> students,
   date |-> date]

T_Idli == <<73, 100, 108, 105>>                            \* "Idli"
T_Puri == <<80, 117, 114, 105>>                            \* "Puri"
T_Chai == <<67, 104, 97, 105>>                             \* "Chai"
T_Vada == <<86, 97, 100, 97>>                              \* "Vada"

\* --- Spec: the daily figures ---------------------------------------------
\* How many rows the menu and the sales file hold at most.
MaxMenu == 2
MaxSales == 3

DayMenuRows ==
  {MenuRow(1, Str(T_Tea), Str(T_veg), Num(1000), NaN),
   MenuRow(2, Str(T_Dosa), Str(T_Non_Veg), Num(26), NaN)}

\* Sales rows: item 3 is on no menu; a date that does not parse; sales
\* with no student; a timestamp with a time of day; a negative student count.
DaySalesRows ==
  {SalesRow(1, Num(200), Num(300), Ts(1, 0)),
   SalesRow(2, Num(100), Num(0), Ts(1, 0)),
   SalesRow(3, Num(300), Num(100), Ts(2, 0)),
   SalesRow(1, Num(100), Num(200), Str(T_abc)),
   SalesRow(2, Num(200), Num(0), Ts(3, 12)),
   SalesRow(1, Num(100), Num(-300), Ts(2, 0))}

DayMenus == {MkTable(MenuHead, r) : r \in SeqsUpTo(DayMenuRows, MaxMenu)}
DaySales == {MkTable(SalesHead, r) : r \in SeqsUpTo(DaySalesRows, MaxSales)}

Init == InitFrom(DayMenus, DaySales)

Spec == Init /\ [][Next]_vars

\* --- SpecJoin: the menu and the join --------------------------------------
MaxJoinMenu == 2
MaxJoinSales == 2

\* Menu rows: two ids, a price that is no number, a price whose 60% needs
\* rounding, an item with no name and no category, two ids with one name.
JoinMenuRows ==
  {MenuRow(1, Str(T_Tea), Str(T_veg), Num(1000), Num(700)),
   MenuRow(2, Str(T_Dosa), Str(T_Non_Veg), Num(26), NaN),
   MenuRow(1, Str(T_Bun), Str(T_NON_VEG), Str(T_abc), Num(50)),
   MenuRow(2, NaN, NaN, Num(2000), Num(1500)),
   MenuRow(2, Str(T_Tea), Str(T_Veg), Num(500), Num(300))}

JoinSalesRows ==
  {SalesRow(1, Num(200), Num(400), Ts(1, 0)),
   SalesRow(2, Num(100), Num(0), Ts(1, 0)),
   SalesRow(3, Num(300), Num(100), Ts(2, 0))}

JoinMenus ==
  {MkTable(h, r) : h \in {MenuHead, MenuHeadUnitcost, MenuHeadUnit_cost},
                   r \in SeqsUpTo(JoinMenuRows, MaxJoinMenu)}
JoinSales == {MkTable(SalesHead, r) : r \in SeqsUpTo(JoinSalesRows, MaxJoinSales)}

InitJoin == InitFrom(JoinMenus, JoinSales)

SpecJoin == InitJoin /\ [][Next]_vars

\* --- SpecCoerce: the contents of numeric cells ----------------------------
MaxCoerceMenu == 1
MaxCoerceSales == 1

\* 10.00, -2.50, 0.99, text, an empty cell.
PriceCells == {Num(1000), Num(-250), Num(99), Str(T_abc), NaN}
\* 2, -1.5, 2.7, text, an empty cell, inf.
CountCells == {Num(200), Num(-150), Num(270), Str(T_abc), NaN, Inf(1)}

CoerceMenus ==
  {MkTable(MenuHead, r) :
     r \in SeqsUpTo({MenuRow(1, Str(T_Tea), Str(T_veg), p, NaN) : p \in PriceCells},
                    MaxCoerceMenu)}
CoerceSales ==
  {MkTable(SalesHead, r) :
     r \in SeqsUpTo({SalesRow(1, q, s, Ts(1, 0)) : q \in CountCells, s \in CountCells},
                    MaxCoerceSales)}

InitCoerce == InitFrom(CoerceMenus, CoerceSales)

SpecCoerce == InitCoerce /\ [][Next]_vars

\* --- SpecSchema: the headers ----------------------------------------------
MaxSchemaRows == 1

\* The header with only the columns whose positions are in K; a file has
\* at least one column.
SubHead(head, K) == LET ks == SortedInts(K) IN [i \in DOMAIN ks |-> head[ks[i]]]
SubHeads(head) == {SubHead(head, K) : K \in (SUBSET DOMAIN head) \ {{}}}

SchemaMenus ==
  {MkTable(h, r) :
     h \in SubHeads(MenuHeadUnit_cost),
     r \in SeqsUpTo({MenuRow(1, Str(T_Tea), Str(T_veg), Num(1000), Num(700))},
                    MaxSchemaRows)}
SchemaSales ==
  {MkTable(h, r) :
     h \in SubHeads(SalesHead),
     r \in SeqsUpTo({SalesRow(1, Num(200), Num(400), Ts(1, 0))}, MaxSchemaRows)}

InitSchema == InitFrom(SchemaMenus, SchemaSales)

SpecSchema == InitSchema /\ [][Next]_vars

\* --- SpecRank: many items a day -------------------------------------------
MaxRankSales == 6

\* Six items; ids, names and prices are in three different orders.
RankMenu ==
  <<MenuRow(1, Str(T_Tea), Str(T_veg), Num(1000), NaN),
    MenuRow(2, Str(T_Bun), Str(T_veg), Num(1000), NaN),
    MenuRow(3, Str(T_Dosa), Str(T_veg), Num(2000), NaN),
    MenuRow(4, Str(T_Idli), Str(T_veg), Num(1000), NaN),
    MenuRow(5, Str(T_Puri), Str(T_veg), Num(2000), NaN),
    MenuRow(6, Str(T_Chai), Str(T_veg), Num(1000), NaN)>>

\* The sequences of at most n distinct elements of S.
RECURSIVE Arrangements(_, _)
Arrangements(S, n) ==
  IF n = 0 THEN {<<>>}
  ELSE {<<>>} \cup
       UNION {{<<x>> \o t : t \in Arrangements(S \ {x}, n - 1)} : x \in S}

\* One sale of one unit of an item on a day.
RankSale(id, day) == SalesRow(id, Num(100), Num(100), Ts(day, 0))

\* What may follow the first sales: nothing, item 1 once more on the same
\* day, item 1 on the day before, or an item that is on no menu.
RankTails ==
  {<<>>, <<RankSale(1, 2)>>, <<RankSale(1, 1)>>, <<RankSale(Len(RankMenu) + 1, 2)>>}

\* The items in an arrival order, each sold once on day 2, and a tail.
RankSales ==
  {MkTable(SalesHead, [i \in DOMAIN a |-> RankSale(a[i], 2)] \o e) :
     a \in Arrangements(1..Len(RankMenu), MaxRankSales), e \in RankTails}

InitRank == InitFrom({MkTable(MenuHead, RankMenu)}, RankSales)

SpecRank == InitRank /\ [][Next]_vars

(***************************************************************************)
(* Properties                                                              *)
(***************************************************************************)
AfterLoad == pc \in {"loaded", "joined", "derived", "returned"}
AfterJoin == pc \in {"joined", "derived", "returned"}
AfterNumpy == pc \in {"derived", "returned"}
Max(a, b) == IF a >= b THEN a ELSE b
Min(a, b) == IF a <= b THEN a ELSE b
DatedRows(d) == SelectSeq(d, HasDate)
NullDateRows(d) == SelectSeq(d, LAMBDA r : ~HasDate(r))

\* C1 as stated: the daily table loses no joined row, so the sums of
\* Revenue, Cost and Profit over the daily rows equal the sums over all the
\* joined rows, rows with a null date included.
C1_DailySumsAllRows ==
  AfterJoin =>
    /\ SumInts(Col(daily, "Revenue")) = SumSkipNa(Col(df, "Revenue"))
    /\ SumInts(Col(daily, "Cost")) = SumSkipNa(Col(df, "Cost"))
    /\ SumInts(Col(daily, "Profit")) = SumSkipNa(Col(df, "Profit"))

\* C1 as amended: the daily table partitions the joined rows that have a
\* date: one row per date, dates ascending, and the sums of Revenue, Cost
\* and Profit over the daily rows equal the sums over the joined rows whose
\* date is not null (rows of items that are on no menu count as 0).
C1_DailySumsDatedRows ==
  AfterJoin =>
    /\ SumInts(Col(daily, "Revenue")) = SumSkipNa(Col(DatedRows(df), "Revenue"))
    /\ SumInts(Col(daily, "Cost")) = SumSkipNa(Col(DatedRows(df), "Cost"))
    /\ SumInts(Col(daily, "Profit")) = SumSkipNa(Col(DatedRows(df), "Profit"))
    /\ \A i, j \in DOMAIN daily : i < j => daily[i].Date < daily[j].Date
    /\ {daily[i].Date : i \in DOMAIN daily}
         = {Val(df[i].date) : i \in {j \in DOMAIN df : HasDate(df[j])}}

\* A run with two days, a sale with revenue whose date did not parse, and a
\* dated sale of an item that is on no menu.
C1_Witness ==
  /\ pc = "returned"
  /\ Len(daily) >= 2
  /\ \E i \in DOMAIN df : ~HasDate(df[i]) /\ ~IsNa(df[i].Revenue) /\ Val(df[i].Revenue) > 0
  /\ \E i \in DOMAIN df : HasDate(df[i]) /\ IsNa(df[i].Revenue)
  /\ \E i \in DOMAIN df : HasDate(df[i]) /\ ~IsNa(df[i].Cost) /\ Val(df[i].Cost) > 0

\* C8: after numpy_phase, AvgSpendPerStudent of a day is null exactly when
\* its UniqueStudents is 0, and otherwise is Revenue / UniqueStudents to the
\* nearest hundredth; the other columns are those pandas_phase computed.
C8_AvgSpendPerStudent ==
  AfterNumpy =>
    /\ Len(daily) = Len(DailyAgg(df))
    /\ \A i \in DOMAIN daily :
         LET r == daily[i]
             b == DailyAgg(df)[i]
         IN /\ IsNa(r.AvgSpendPerStudent) <=> r.UniqueStudents = 0
            /\ r.UniqueStudents # 0 =>
                 2 * Abs(Val(r.AvgSpendPerStudent) * r.UniqueStudents - r.Revenue)
                   <= Abs(r.UniqueStudents)
            /\ r.Date = b.Date /\ r.Revenue = b.Revenue /\ r.Cost = b.Cost
            /\ r.Profit = b.Profit /\ r.Orders = b.Orders
            /\ r.UniqueStudents = b.UniqueStudents

\* A run with a day without students, a day whose average needs rounding
\* and a day whose student count is negative.
C8_Witness ==
  /\ pc = "returned"
  /\ \E i \in DOMAIN daily : daily[i].UniqueStudents = 0 /\ daily[i].Revenue > 0
  /\ \E i \in DOMAIN daily :
       /\ daily[i].UniqueStudents > 0
       /\ daily[i].Revenue % daily[i].UniqueStudents # 0
  /\ \E i \in DOMAIN daily : daily[i].UniqueStudents < 0

\* C9: Cost_MA3 has a value for each of the n daily rows, the mean to the
\* nearest hundredth of the costs of the day before, the day and the day
\* after, the first and the last day standing in for their missing
\* neighbour; with one day it is that day's cost.
C9_CostMA3 ==
  AfterNumpy =>
    LET n == Len(daily)
    IN /\ \A i \in 1..n :
            /\ ~IsNa(daily[i].Cost_MA3)
            /\ 2 * Abs(Window * Val(daily[i].Cost_MA3)
                       - (daily[Max(i - 1, 1)].Cost + daily[i].Cost
                          + daily[Min(i + 1, n)].Cost)) <= Window
       /\ n = 1 => Val(daily[1].Cost_MA3) = daily[1].Cost

\* A run with three days of different costs whose means need rounding.
C9_Witness ==
  /\ pc = "returned"
  /\ Len(daily) = 3
  /\ daily[1].Cost # daily[2].Cost /\ daily[2].Cost # daily[3].Cost
  /\ \A i \in 1..3 : daily[i].Cost > 0
  /\ (daily[1].Cost + daily[2].Cost + daily[3].Cost) % Window # 0
  /\ (daily[2].Cost + 2 * daily[3].Cost) % Window # 0

MissingMenu == need_menu \ ColSet(NormColumns(menu_csv.columns))
MissingSales == need_sales \ ColSet(NormColumns(sales_csv.columns))
IsSortedStrs(s) == \A i, j \in DOMAIN s : i < j => LexLess(s[i], s[j])
NothingComputed ==
  /\ menu = <<>> /\ sales = <<>> /\ df = <<>> /\ daily = <<>>
  /\ vnv = <<>> /\ top5 = <<>> /\ result = NoResult

\* C2 as stated: when a required column is missing from either file,
\* load_data raises before anything is joined, and the error lists, sorted,
\* every missing column of both files.
C2_ErrorNamesAllMissing ==
  (pc # "start" /\ MissingMenu \cup MissingSales # {}) =>
    /\ pc = "raised" /\ error.type = "KeyError" /\ NothingComputed
    /\ IsSortedStrs(error.cols)
    /\ ColSet(error.cols) = MissingMenu \cup MissingSales

\* C2 as amended: when a required column is missing from either file,
\* load_data raises before anything is joined, and the error lists, sorted,
\* every missing column of one file: the menu's when the menu lacks any, the
\* sales' only when the menu is complete.
C2_ErrorNamesFirstTable ==
  (pc # "start" /\ MissingMenu \cup MissingSales # {}) =>
    /\ pc = "raised" /\ error.type = "KeyError" /\ NothingComputed
    /\ IsSortedStrs(error.cols)
    /\ IF MissingMenu # {}
       THEN error.table = "Menu" /\ ColSet(error.cols) = MissingMenu
       ELSE error.table = "Sales" /\ ColSet(error.cols) = MissingSales

\* Both files lack columns, the menu several.
C2_Witness ==
  /\ pc = "raised"
  /\ Cardinality(MissingMenu) >= 2
  /\ Cardinality(MissingSales) >= 2
  /\ MissingSales \ MissingMenu # {}

HasDuplicateIds(m) ==
  \E i, j \in DOMAIN m : i < j /\ m[i].item_id = m[j].item_id

\* C3: a menu with two rows of one item_id makes the run end in a merge
\* error once pandas_phase is called: no table, no workbook and no chart is
\* produced, whether or not a sale refers to that item.
C3_DuplicateMenuIdAborts ==
  (pc \notin {"start", "loaded"} /\ HasDuplicateIds(menu)) =>
    /\ pc = "raised" /\ error = MergeError
    /\ df = <<>> /\ daily = <<>> /\ vnv = <<>> /\ top5 = <<>>
    /\ result = NoResult

\* The run has ended on a duplicate id that no sale refers to.
C3_Witness ==
  /\ pc = "raised" /\ error = MergeError
  /\ Len(sales) > 0
  /\ \E i, j \in DOMAIN menu :
       /\ i < j /\ menu[i].item_id = menu[j].item_id
       /\ \A k \in DOMAIN sales : sales[k].item_id # menu[i].item_id

MenuCols == NormColumns(menu_csv.columns)
\* unitcost is 60% of the price to the nearest hundredth.
IsCost60(uc, price) ==
  ~IsNa(uc) /\ 2 * Abs(100 * Val(uc) - CostPct * price) <= 100
\* The joined rows carry the menu's unitcost, and Cost is quantity times it.
CostFromUnitCost ==
  AfterJoin =>
    \A i \in DOMAIN df :
      /\ \A j \in DOMAIN menu :
           menu[j].item_id = df[i].item_id => df[i].unitcost = menu[j].unitcost
      /\ df[i].Cost = IF IsNa(df[i].unitcost) THEN NaN
                      ELSE Num(df[i].quantity * Val(df[i].unitcost))

\* C5 as stated: without a cost column unitcost is 60% of the price rounded
\* to 2 decimals; the values of a column unit_cost are used as they are, and
\* Cost is quantity times them.
C5_UnitCostColumnUsed ==
  AfterLoad =>
    /\ \A i \in DOMAIN menu :
         IF H_unit_cost \in ColSet(MenuCols)
         THEN menu[i].unitcost = Cell(MenuCols, menu_csv.rows[i], H_unit_cost)
         ELSE S_unitcost \notin ColSet(MenuCols) =>
                IsCost60(menu[i].unitcost, menu[i].price)
    /\ CostFromUnitCost

\* C5 as amended: the cost column the code reads is the one whose header
\* reads unitcost once trimmed and lower-cased; its values are used as they
\* are, and Cost is quantity times them. Without that column, also when the
\* menu has a column unit_cost, unitcost is 60% of the price rounded to 2
\* decimals.
C5_UnitcostColumnUsed ==
  AfterLoad =>
    /\ \A i \in DOMAIN menu :
         IF S_unitcost \in ColSet(MenuCols)
         THEN menu[i].unitcost = Cell(MenuCols, menu_csv.rows[i], S_unitcost)
         ELSE IsCost60(menu[i].unitcost, menu[i].price)
    /\ CostFromUnitCost

\* A menu with a column unit_cost whose value is not 60% of the price, and
\* a sale of that item with a cost.
C5_Witness ==
  /\ pc = "returned"
  /\ H_unit_cost \in ColSet(MenuCols)
  /\ \E i \in DOMAIN menu :
       /\ Cell(MenuCols, menu_csv.rows[i], H_unit_cost) # menu[i].unitcost
       /\ menu[i].price % 5 # 0
       /\ \E k \in DOMAIN df :
            df[k].item_id = menu[i].item_id /\ Val(df[k].Cost) > 0

OnMenu(id) == \E j \in DOMAIN menu : menu[j].item_id = id

\* C7: the joined table has one row per sales record, in the order of the
\* sales; a sale of an item that is on no menu has null Item, Category and
\* price, and the category split has no group made of a missing category:
\* each of its categories is the normalised category of a menu item.
C7_JoinedRowPerSale ==
  AfterJoin =>
    /\ Len(df) = Len(sales)
    /\ \A i \in DOMAIN df :
         /\ df[i].item_id = sales[i].item_id
         /\ df[i].quantity = sales[i].quantity
         /\ df[i].student_count = sales[i].student_count
         /\ df[i].date = sales[i].date
         /\ ~OnMenu(df[i].item_id) =>
              IsNa(df[i].Item) /\ IsNa(df[i].Category) /\ IsNa(df[i].price)
    /\ \A k \in DOMAIN vnv :
         \E j \in DOMAIN menu :
           /\ ~IsNa(menu[j].category)
           /\ vnv[k].Category = NormCategory(menu[j].category)

\* What holds of C7: the rows, their order, and the null Item and price.
C7_JoinedRowPerSaleButCategory ==
  AfterJoin =>
    /\ Len(df) = Len(sales)
    /\ \A i \in DOMAIN df :
         /\ df[i].item_id = sales[i].item_id
         /\ df[i].quantity = sales[i].quantity
         /\ df[i].student_count = sales[i].student_count
         /\ df[i].date = sales[i].date
         /\ ~OnMenu(df[i].item_id) =>
              IsNa(df[i].Item) /\ df[i].Category = Str(T_Nan) /\ IsNa(df[i].price)

SalesCols == NormColumns(sales_csv.columns)
\* n is the whole number that the cell's number cut towards zero is, 0 when
\* the cell holds no number.
IsCastOf(n, c) ==
  IF c.k = "num"
  THEN /\ Abs(n) * Scale <= Abs(Val(c))
       /\ Abs(Val(c)) - Abs(n) * Scale < Scale
       /\ n * Val(c) >= 0
  ELSE n = 0

\* A cell of the sales column reads inf.
InfCount(name) ==
  \E i \in DOMAIN sales_csv.rows : Cell(SalesCols, sales_csv.rows[i], name).k = "inf"

DaysOf(d) == {Val(d[i].date) : i \in {j \in DOMAIN d : HasDate(d[j])}}
\* The rows of the joined table of an item on a day, as positions.
SalesOf(day, item) ==
  {i \in DOMAIN df : HasDate(df[i]) /\ Val(df[i].date) = day
                     /\ HasItem(df[i]) /\ df[i].Item.v = item}
ItemsOn(day) ==
  {df[i].Item.v : i \in {j \in DOMAIN df :
                           HasDate(df[j]) /\ Val(df[j].date) = day /\ HasItem(df[j])}}
RECURSIVE RevenueOver(_)
RevenueOver(I) ==
  IF I = {} THEN 0
  ELSE LET i == CHOOSE x \in I : TRUE
       IN (IF IsNa(df[i].Revenue) THEN 0 ELSE Val(df[i].Revenue)) + RevenueOver(I \ {i})
ItemRevenue(day, item) == RevenueOver(SalesOf(day, item))
\* The position in the joined table of the first sale of an item on a day.
Arrival(day, item) == CHOOSE i \in SalesOf(day, item) : \A j \in SalesOf(day, item) : i <= j
Top5On(day) == SelectSeq(top5, LAMBDA r : r.Date = day)
InTop5(day, item) == \E k \in DOMAIN top5 : top5[k].Date = day /\ top5[k].Item.v = item

\* C4: for every date the top5 table has min(5, number of distinct items
\* sold that date) rows, an item being a value of the Item column; their
\* ranks are 1..k in the order of the rows, the table is ordered by date,
\* and within a date revenue never grows with the rank.
C4_Top5RanksPerDate ==
  AfterJoin =>
    /\ \A i, j \in DOMAIN top5 : i < j => top5[i].Date <= top5[j].Date
    /\ \A k \in DOMAIN top5 : top5[k].Date \in DaysOf(df)
    /\ \A day \in DaysOf(df) :
         LET rows == Top5On(day)
         IN /\ Len(rows) = Min(TopN, Cardinality(ItemsOn(day)))
            /\ \A i \in DOMAIN rows : rows[i].Rank = i
            /\ \A i, j \in DOMAIN rows : i < j => rows[i].Revenue >= rows[j].Revenue

\* A run with a day of six items, ties among the five kept, and a second
\* day with a row.
C4_Witness ==
  /\ pc = "returned"
  /\ \E day \in DaysOf(df) :
       /\ Cardinality(ItemsOn(day)) > TopN
       /\ Len(Top5On(day)) = TopN
       /\ \E i \in 1..(TopN - 1) : Top5On(day)[i].Revenue = Top5On(day)[i + 1].Revenue
       /\ Top5On(day)[1].Revenue > Top5On(day)[TopN].Revenue
  /\ Cardinality({top5[k].Date : k \in DOMAIN top5}) >= 2

====
